---- MODULE Spec2Model ----
(* Model of pyJoules/energy_meter.py: the EnergyMeter trace state machine,   *)
(* the EnergyState chain and the SampleIterator that derives EnergySamples.  *)
EXTENDS Integers, Sequences, FiniteSets, TLC

(* ---------------------------------------------------------------------- *)
(* Bounds                                                                   *)
(* ---------------------------------------------------------------------- *)
\* number of EnergyState objects ever created (live or discarded)
MaxStates == 3
\* largest value time.perf_counter() returns
MaxTime == 1
\* largest cumulative value a device counter reaches
MaxEnergy == 1

(* ---------------------------------------------------------------------- *)
(* Values                                                                   *)
(* ---------------------------------------------------------------------- *)
\* Python None used as a reference (no state / no successor)
None == 0
\* Python None passed as the optional tag argument
NoTag == "<None>"
\* the sentinel tag written by stop()
StopTag == "__stop__"

\* tags the caller passes to start() and record()
Tags == {"a", StopTag, NoTag}
\* tags the caller passes to get_sample()
GetTags == {"a", "b", StopTag}
\* values of the default_tag constructor argument
DefaultTags == {"a", StopTag}

\* An energy domain object; str(domain) is its name.  Two configured domains
\* may convert to the same string.
Domain(n) == [name |-> n]
Str(key) == key.name

\* The monitored devices, each given by its get_configured_domains() list.
\* There is at least one device: reduce() over an empty device list raises
\* TypeError in __next__, a case the model leaves out.
DeviceConfigs ==
    { << <<Domain("D")>> >>,
      << <<Domain("D"), Domain("E")>> >>,
      << <<Domain("D")>>, <<Domain("E")>> >>,
      << <<Domain("D")>>, <<Domain("D")>> >> }

Min(a, b) == IF a <= b THEN a ELSE b

RECURSIVE Flatten(_)
\* reduce(operator.add, seqs), for a non-empty list of lists
Flatten(seqs) ==
    IF Len(seqs) = 0 THEN << >>
    ELSE Head(seqs) \o Flatten(Tail(seqs))

VARIABLES
    devices,       \* EnergyMeter.devices, as the domain lists of the devices
    default_tag,   \* EnergyMeter.default_tag
    heap,          \* every EnergyState created so far, by object id 1..Len(heap)
    first_state,   \* EnergyMeter._first_state (id or None)
    last_state,    \* EnergyMeter._last_state (id or None)
    clock,         \* last value returned by time.perf_counter()
    counters,      \* current cumulative counters of the devices
    iterator,      \* the SampleIterator held by the caller: its _current_state, or None
    op,            \* the operation called last
    arg,           \* its argument: a tag, or the state(s) a call on an EnergyState names
    err,           \* the exception it raised, or "none"
    ret,           \* the samples it returned (a sequence; <<>> when nothing)
    log,           \* successful start/record/stop calls since the most recent start()
    snap,          \* the latest successful complete iterations since the most recent start()
    modSince,      \* number of record()/stop() calls that succeeded since snap was taken
    bound          \* what the kept SampleIterator was created over and has yielded since

vars == << devices, default_tag, heap, first_state, last_state, clock, counters,
           iterator, op, arg, err, ret, log, snap, modSince, bound >>

meterVars == << heap, first_state, last_state >>
envVars == << clock, counters >>
cfgVars == << devices, default_tag >>
ghostVars == << log, snap, modSince, bound >>

(* ---------------------------------------------------------------------- *)
(* EnergyState                                                              *)
(* ---------------------------------------------------------------------- *)
EnergyState(timestamp, tag, values) ==
    [timestamp |-> timestamp, tag |-> tag, values |-> values, next_state |-> None]

is_last(h, s) == h[s].next_state = None

\* result of state.compute_duration()
compute_duration(h, s) ==
    IF h[s].next_state = None
    THEN [err |-> "NoNextStateException", value |-> 0]
    ELSE [err |-> "none", value |-> h[h[s].next_state].timestamp - h[s].timestamp]

\* zip(next_device_values, current_device_values) and the subtraction
DeviceDeltas(nv, cv) ==
    [j \in 1..Min(Len(nv), Len(cv)) |-> nv[j] - cv[j]]

\* the flat list "energy" built by the first loop of compute_energy
EnergyList(nvalues, cvalues) ==
    Flatten([d \in 1..Min(Len(nvalues), Len(cvalues)) |->
                DeviceDeltas(nvalues[d], cvalues[d])])

\* the dictionary built by the second loop: a later pair overwrites an
\* earlier pair that has the same str(key)
ValuesDict(energy, domains) ==
    LET n == Min(Len(energy), Len(domains))
        keys == {Str(domains[i]) : i \in 1..n}
        lastIdx(k) == CHOOSE i \in 1..n :
                          /\ Str(domains[i]) = k
                          /\ \A j \in 1..n : Str(domains[j]) = k => j <= i
    IN [k \in keys |-> energy[lastIdx(k)]]

\* result of state.compute_energy(domains)
compute_energy(h, s, domains) ==
    IF h[s].next_state = None
    THEN [err |-> "NoNextStateException", value |-> << >>]
    ELSE [err |-> "none",
          value |-> ValuesDict(EnergyList(h[h[s].next_state].values, h[s].values),
                               domains)]

\* add_next_state without the check: it always assigns
add_next_state_Overwrites(h, s, n) ==
    [err |-> "none", heap |-> [h EXCEPT ![s].next_state = n]]

\* result of h[s].add_next_state(n): the exception raised and the heap afterwards
add_next_state(h, s, n) ==
    IF h[s].next_state # None
    THEN [err |-> "StateIsNotFinalError", heap |-> h]
    ELSE [err |-> "none", heap |-> [h EXCEPT ![s].next_state = n]]

(* ---------------------------------------------------------------------- *)
(* SampleIterator                                                           *)
(* ---------------------------------------------------------------------- *)
EnergySample(timestamp, tag, duration, energy) ==
    [timestamp |-> timestamp, tag |-> tag, duration |-> duration, energy |-> energy]

\* SampleIterator.__next__ that also ends at the state before the last one
SampleIteratorNext_StopsEarly(h, devs, cur) ==
    IF h[cur].next_state = None \/ h[h[cur].next_state].next_state = None
    THEN [stop |-> TRUE, err |-> "none", sample |-> << >>, current_state |-> cur]
    ELSE [stop |-> FALSE,
          err |-> "none",
          sample |-> EnergySample(h[cur].timestamp, h[cur].tag,
                                  h[h[cur].next_state].timestamp - h[cur].timestamp,
                                  ValuesDict(EnergyList(h[h[cur].next_state].values,
                                                        h[cur].values),
                                             Flatten(devs))),
          current_state |-> h[cur].next_state]

\* __next__ without the StopIteration test: on the last state it goes on to
\* compute_duration, whose exception leaves it
SampleIteratorNext_NoGuard(h, devs, cur) ==
    IF h[cur].next_state = None
    THEN [stop |-> FALSE, err |-> compute_duration(h, cur).err,
          sample |-> << >>, current_state |-> cur]
    ELSE [stop |-> FALSE,
          err |-> "none",
          sample |-> EnergySample(h[cur].timestamp, h[cur].tag,
                                  compute_duration(h, cur).value,
                                  compute_energy(h, cur, Flatten(devs)).value),
          current_state |-> h[cur].next_state]

\* the exception that leaves __next__ when it builds the sample of state cur
SampleErr(h, devs, cur) ==
    IF compute_duration(h, cur).err # "none" THEN compute_duration(h, cur).err
    ELSE compute_energy(h, cur, Flatten(devs)).err

\* SampleIterator.__next__ on an iterator whose _current_state is cur: stop is
\* StopIteration, err an exception of compute_duration or compute_energy
SampleIteratorNext(h, devs, cur) ==
    IF h[cur].next_state = None
    THEN [stop |-> TRUE, err |-> "none", sample |-> << >>, current_state |-> cur]
    ELSE [stop |-> FALSE,
          err |-> SampleErr(h, devs, cur),
          sample |-> EnergySample(h[cur].timestamp, h[cur].tag,
                                  compute_duration(h, cur).value,
                                  compute_energy(h, cur, Flatten(devs)).value),
          current_state |-> h[cur].next_state]

RECURSIVE Drain_SkipsFirst(_, _, _)
\* a for-loop over an iterator that starts one state too far: the first
\* interval is not yielded
Drain_SkipsFirst(h, devs, cur) ==
    LET r == SampleIteratorNext(h, devs, cur)
    IN IF r.stop \/ r.err # "none" THEN << >>
       ELSE LET r2 == SampleIteratorNext(h, devs, r.current_state)
            IN IF r2.stop \/ r2.err # "none" THEN << >>
               ELSE << r2.sample >> \o Drain_SkipsFirst(h, devs, r.current_state)

RECURSIVE Drain(_, _, _)
\* the samples a for-loop obtains from an iterator positioned at cur
Drain(h, devs, cur) ==
    LET r == SampleIteratorNext(h, devs, cur)
    IN IF r.stop \/ r.err # "none" THEN << >>
       ELSE << r.sample >> \o Drain(h, devs, r.current_state)

RECURSIVE DrainErr(_, _, _)
\* the exception that ends that for-loop, "none" when StopIteration ends it
DrainErr(h, devs, cur) ==
    LET r == SampleIteratorNext(h, devs, cur)
    IN IF r.stop THEN "none"
       ELSE IF r.err # "none" THEN r.err
       ELSE DrainErr(h, devs, r.current_state)

(* ---------------------------------------------------------------------- *)
(* EnergyMeter                                                              *)
(* ---------------------------------------------------------------------- *)
\* the readings device.get_energy() may return now: one per configured domain,
\* never below the previous reading
Readings ==
    { v \in [1..Len(devices) -> UNION {[1..n -> 0..MaxEnergy] : n \in 1..2}] :
        \A d \in 1..Len(devices) :
            /\ Len(v[d]) = Len(devices[d])
            /\ \A j \in 1..Len(v[d]) :
                  /\ v[d][j] >= counters[d][j]
                  /\ v[d][j] <= counters[d][j] + 1 }

\* the values time.perf_counter() may return now
Times == { t \in 0..MaxTime : t >= clock /\ t <= clock + 1 }

_measure_new_state(tag, t, v) ==
    EnergyState(t, IF tag # NoTag THEN tag ELSE default_tag, v)

\* the check with the two exceptions exchanged
IterCheck_SwappedErrors ==
    IF first_state = None THEN "EnergyMeterNotStoppedError"
    ELSE IF ~(heap[last_state].tag = StopTag) THEN "EnergyMeterNotStartedError"
    ELSE "none"

\* the check made by __iter__ (and repeated at the head of get_sample)
IterCheck ==
    IF first_state = None THEN "EnergyMeterNotStartedError"
    ELSE IF ~(heap[last_state].tag = StopTag) THEN "EnergyMeterNotStoppedError"
    ELSE "none"

RECURSIVE FindSample_LastMatch(_, _, _, _)
\* the loop of get_sample that keeps the last matching sample
FindSample_LastMatch(h, devs, cur, tag) ==
    LET r == SampleIteratorNext(h, devs, cur)
    IN IF r.stop THEN [err |-> "SampleNotFoundError", ret |-> << >>]
       ELSE IF r.err # "none" THEN [err |-> r.err, ret |-> << >>]
       ELSE LET rest == FindSample_LastMatch(h, devs, r.current_state, tag)
            IN IF rest.err = "none" THEN rest
               ELSE IF r.sample.tag = tag THEN [err |-> "none", ret |-> << r.sample >>]
               ELSE rest

RECURSIVE FindSample_EndTag(_, _, _, _)
\* the loop of get_sample that compares the tag of the state ending the interval
FindSample_EndTag(h, devs, cur, tag) ==
    LET r == SampleIteratorNext(h, devs, cur)
    IN IF r.stop THEN [err |-> "SampleNotFoundError", ret |-> << >>]
       ELSE IF r.err # "none" THEN [err |-> r.err, ret |-> << >>]
       ELSE IF h[r.current_state].tag = tag THEN [err |-> "none", ret |-> << r.sample >>]
       ELSE FindSample_EndTag(h, devs, r.current_state, tag)

RECURSIVE FindSample(_, _, _, _)
\* the loop of get_sample over an iterator positioned at cur
FindSample(h, devs, cur, tag) ==
    LET r == SampleIteratorNext(h, devs, cur)
    IN IF r.stop THEN [err |-> "SampleNotFoundError", ret |-> << >>]
       ELSE IF r.err # "none" THEN [err |-> r.err, ret |-> << >>]
       ELSE IF r.sample.tag = tag THEN [err |-> "none", ret |-> << r.sample >>]
       ELSE FindSample(h, devs, r.current_state, tag)

\* no complete iteration has succeeded since the most recent start()
NoSnap ==
    [valid |-> FALSE, samples |-> << >>,
     prevValid |-> FALSE, prevSamples |-> << >>, prevMod |-> 0]

\* the caller keeps no SampleIterator whose trace is being followed
NoBound ==
    [active |-> FALSE, expect |-> << >>, got |-> << >>, restarted |-> FALSE]

Init ==
    /\ devices \in DeviceConfigs
    /\ default_tag \in DefaultTags
    /\ heap = << >>
    /\ first_state = None
    /\ last_state = None
    /\ clock = 0
    /\ counters = [d \in 1..Len(devices) |-> [j \in 1..Len(devices[d]) |-> 0]]
    /\ iterator = None
    /\ op = "init"
    /\ arg = NoTag
    /\ err = "none"
    /\ ret = << >>
    /\ log = << >>
    /\ snap = NoSnap
    /\ modSince = 0
    /\ bound = NoBound

\* start(tag) that keeps _first_state when the meter already has one
Start_KeepsFirst(tag) ==
    /\ Len(heap) < MaxStates
    /\ \E t \in Times, v \in Readings :
          LET new_state == Len(heap) + 1
          IN /\ heap' = Append(heap, _measure_new_state(tag, t, v))
             /\ first_state' = IF first_state = None THEN new_state ELSE first_state
             /\ last_state' = new_state
             /\ clock' = t
             /\ counters' = v
    /\ op' = "start" /\ arg' = tag /\ err' = "none" /\ ret' = << >>
    /\ log' = << "start" >>
    /\ snap' = NoSnap
    /\ modSince' = 0
    /\ bound' = IF bound.active THEN [bound EXCEPT !.restarted = TRUE] ELSE bound
    /\ UNCHANGED << cfgVars, iterator >>

\* start(tag) that keeps _last_state when the meter already has one
Start_KeepsLast(tag) ==
    /\ Len(heap) < MaxStates
    /\ \E t \in Times, v \in Readings :
          LET new_state == Len(heap) + 1
          IN /\ heap' = Append(heap, _measure_new_state(tag, t, v))
             /\ first_state' = new_state
             /\ last_state' = IF last_state = None THEN new_state ELSE last_state
             /\ clock' = t
             /\ counters' = v
    /\ op' = "start" /\ arg' = tag /\ err' = "none" /\ ret' = << >>
    /\ log' = << "start" >>
    /\ snap' = NoSnap
    /\ modSince' = 0
    /\ bound' = IF bound.active THEN [bound EXCEPT !.restarted = TRUE] ELSE bound
    /\ UNCHANGED << cfgVars, iterator >>

\* start(tag) after which the SampleIterator the caller keeps reads the new trace
Start_RebindsIterator(tag) ==
    /\ Len(heap) < MaxStates
    /\ \E t \in Times, v \in Readings :
          LET new_state == Len(heap) + 1
          IN /\ heap' = Append(heap, _measure_new_state(tag, t, v))
             /\ first_state' = new_state
             /\ last_state' = new_state
             /\ iterator' = IF iterator = None THEN None ELSE new_state
             /\ clock' = t
             /\ counters' = v
    /\ op' = "start" /\ arg' = tag /\ err' = "none" /\ ret' = << >>
    /\ log' = << "start" >>
    /\ snap' = NoSnap
    /\ modSince' = 0
    /\ bound' = IF bound.active THEN [bound EXCEPT !.restarted = TRUE] ELSE bound
    /\ UNCHANGED cfgVars

\* EnergyMeter.start(tag)
Start(tag) ==
    /\ Len(heap) < MaxStates
    /\ \E t \in Times, v \in Readings :
          LET new_state == Len(heap) + 1
          IN /\ heap' = Append(heap, _measure_new_state(tag, t, v))
             /\ first_state' = new_state
             /\ last_state' = new_state
             /\ clock' = t
             /\ counters' = v
    /\ op' = "start" /\ arg' = tag /\ err' = "none" /\ ret' = << >>
    /\ log' = << "start" >>
    /\ snap' = NoSnap
    /\ modSince' = 0
    /\ bound' = IF bound.active THEN [bound EXCEPT !.restarted = TRUE] ELSE bound
    /\ UNCHANGED << cfgVars, iterator >>

\* the append that forgets self._last_state = new_state
AppendNewState_KeepsLast(tag, name) ==
    /\ Len(heap) < MaxStates
    /\ \E t \in Times, v \in Readings :
          LET new_state == Len(heap) + 1
              r == add_next_state(Append(heap, _measure_new_state(tag, t, v)),
                                  last_state, new_state)
          IN /\ heap' = r.heap
             /\ err' = r.err
             /\ log' = IF r.err = "none" THEN Append(log, name) ELSE log
             /\ modSince' = IF r.err = "none" THEN modSince + 1 ELSE modSince
             /\ bound' = IF r.err = "none" /\ bound.active /\ ~bound.restarted
                          THEN NoBound ELSE bound
             /\ clock' = t
             /\ counters' = v
    /\ UNCHANGED << first_state, last_state >>

\* new_state = self._measure_new_state(tag);
\* self._last_state.add_next_state(new_state); self._last_state = new_state
AppendNewState(tag, name) ==
    /\ Len(heap) < MaxStates
    /\ \E t \in Times, v \in Readings :
          LET new_state == Len(heap) + 1
              r == add_next_state(Append(heap, _measure_new_state(tag, t, v)),
                                  last_state, new_state)
          IN /\ heap' = r.heap
             /\ err' = r.err
             /\ last_state' = IF r.err = "none" THEN new_state ELSE last_state
             /\ log' = IF r.err = "none" THEN Append(log, name) ELSE log
             /\ modSince' = IF r.err = "none" THEN modSince + 1 ELSE modSince
             /\ bound' = IF r.err = "none" /\ bound.active /\ ~bound.restarted
                          THEN NoBound ELSE bound
             /\ clock' = t
             /\ counters' = v
    /\ UNCHANGED first_state

\* EnergyMeter.record(tag)
Record(tag) ==
    /\ op' = "record" /\ arg' = tag /\ ret' = << >>
    /\ IF first_state = None
       THEN /\ err' = "EnergyMeterNotStartedError"
            /\ UNCHANGED << meterVars, envVars, log, modSince, bound >>
       ELSE AppendNewState(tag, "record")
    /\ UNCHANGED << cfgVars, iterator, snap >>

\* stop() that leaves the tag of the new state to the default tag
Stop_DefaultTag ==
    /\ op' = "stop" /\ arg' = NoTag /\ ret' = << >>
    /\ IF first_state = None
       THEN /\ err' = "EnergyMeterNotStartedError"
            /\ UNCHANGED << meterVars, envVars, log, modSince, bound >>
       ELSE AppendNewState(NoTag, "stop")
    /\ UNCHANGED << cfgVars, iterator, snap >>

\* EnergyMeter.stop()
Stop ==
    /\ op' = "stop" /\ arg' = NoTag /\ ret' = << >>
    /\ IF first_state = None
       THEN /\ err' = "EnergyMeterNotStartedError"
            /\ UNCHANGED << meterVars, envVars, log, modSince, bound >>
       ELSE AppendNewState(StopTag, "stop")
    /\ UNCHANGED << cfgVars, iterator, snap >>

\* get_sample(tag) that scans by moving _first_state along the trace
GetSample_Consuming(tag) ==
    /\ op' = "get_sample" /\ arg' = tag
    /\ IF IterCheck # "none"
       THEN err' = IterCheck /\ ret' = << >> /\ UNCHANGED first_state
       ELSE LET r == FindSample(heap, devices, first_state, tag)
            IN /\ err' = r.err /\ ret' = r.ret
               /\ first_state' = IF r.err = "none" THEN first_state ELSE last_state
    /\ UNCHANGED << cfgVars, heap, last_state, envVars, iterator, ghostVars >>

\* EnergyMeter.get_sample(tag)
GetSample(tag) ==
    /\ op' = "get_sample" /\ arg' = tag
    /\ IF IterCheck # "none"
       THEN err' = IterCheck /\ ret' = << >>
       ELSE LET r == FindSample(heap, devices, first_state, tag)
            IN err' = r.err /\ ret' = r.ret
    /\ UNCHANGED << cfgVars, meterVars, envVars, iterator, ghostVars >>

\* EnergyMeter.__iter__(): the caller keeps the SampleIterator
Iter ==
    /\ op' = "__iter__" /\ arg' = NoTag /\ ret' = << >>
    /\ err' = IterCheck
    /\ iterator' = IF IterCheck = "none" THEN first_state ELSE iterator
    /\ bound' = IF IterCheck = "none"
                 THEN [active |-> TRUE,
                       expect |-> Drain(heap, devices, first_state),
                       got |-> << >>,
                       restarted |-> FALSE]
                 ELSE bound
    /\ UNCHANGED << cfgVars, meterVars, envVars, log, snap, modSince >>

\* __next__ that advances the meter's _first_state together with the iterator
IterNext_Consuming ==
    /\ iterator # None
    /\ LET r == SampleIteratorNext(heap, devices, iterator)
       IN /\ err' = IF r.stop THEN "StopIteration" ELSE r.err
          /\ ret' = IF r.stop \/ r.err # "none" THEN << >> ELSE << r.sample >>
          /\ iterator' = IF r.err # "none" THEN iterator ELSE r.current_state
          /\ first_state' = IF r.err # "none" THEN first_state ELSE r.current_state
          /\ bound' = IF bound.active /\ ~r.stop /\ r.err = "none"
                       THEN [bound EXCEPT !.got = Append(@, r.sample)]
                       ELSE bound
    /\ op' = "__next__" /\ arg' = NoTag
    /\ UNCHANGED << cfgVars, heap, last_state, envVars, log, snap, modSince >>

\* SampleIterator.__next__() on the iterator the caller keeps
IterNext ==
    /\ iterator # None
    /\ LET r == SampleIteratorNext(heap, devices, iterator)
       IN /\ err' = IF r.stop THEN "StopIteration" ELSE r.err
          /\ ret' = IF r.stop \/ r.err # "none" THEN << >> ELSE << r.sample >>
          /\ iterator' = IF r.err # "none" THEN iterator ELSE r.current_state
          /\ bound' = IF bound.active /\ ~r.stop /\ r.err = "none"
                       THEN [bound EXCEPT !.got = Append(@, r.sample)]
                       ELSE bound
    /\ op' = "__next__" /\ arg' = NoTag
    /\ UNCHANGED << cfgVars, meterVars, envVars, log, snap, modSince >>

\* the exception a complete iteration raises: that of __iter__, or the one
\* that ends the loop
IterateErr ==
    IF IterCheck # "none" THEN IterCheck
    ELSE DrainErr(heap, devices, first_state)

\* a complete iteration that consumes the trace: it leaves _first_state at the
\* state it stopped on
Iterate_Consuming ==
    /\ op' = "iterate" /\ arg' = NoTag
    /\ err' = IterateErr
    /\ IF IterateErr # "none"
       THEN ret' = << >> /\ UNCHANGED << snap, modSince, first_state >>
       ELSE /\ ret' = Drain(heap, devices, first_state)
            /\ first_state' = last_state
            /\ snap' = [valid |-> TRUE,
                         samples |-> Drain(heap, devices, first_state),
                         prevValid |-> snap.valid,
                         prevSamples |-> snap.samples,
                         prevMod |-> modSince]
            /\ modSince' = 0
    /\ UNCHANGED << cfgVars, heap, last_state, envVars, iterator, log, bound >>

\* a complete iteration, list(meter): __iter__ then __next__ until StopIteration
Iterate ==
    /\ op' = "iterate" /\ arg' = NoTag
    /\ err' = IterateErr
    /\ IF IterateErr # "none"
       THEN ret' = << >> /\ UNCHANGED << snap, modSince >>
       ELSE /\ ret' = Drain(heap, devices, first_state)
            /\ snap' = [valid |-> TRUE,
                         samples |-> Drain(heap, devices, first_state),
                         prevValid |-> snap.valid,
                         prevSamples |-> snap.samples,
                         prevMod |-> modSince]
            /\ modSince' = 0
    /\ UNCHANGED << cfgVars, meterVars, envVars, iterator, log, bound >>

\* state.compute_duration() called by hand on the state with id s
ComputeDuration(s) ==
    /\ op' = "compute_duration" /\ arg' = s
    /\ err' = compute_duration(heap, s).err
    /\ ret' = IF compute_duration(heap, s).err = "none"
              THEN << compute_duration(heap, s).value >> ELSE << >>
    /\ UNCHANGED << cfgVars, meterVars, envVars, iterator, ghostVars >>

\* state.compute_energy(domains) called by hand on the state with id s, with
\* the domain list the SampleIterator passes
ComputeEnergy(s) ==
    /\ op' = "compute_energy" /\ arg' = s
    /\ err' = compute_energy(heap, s, Flatten(devices)).err
    /\ ret' = IF compute_energy(heap, s, Flatten(devices)).err = "none"
              THEN << compute_energy(heap, s, Flatten(devices)).value >> ELSE << >>
    /\ UNCHANGED << cfgVars, meterVars, envVars, iterator, ghostVars >>

\* s.add_next_state(n) called by hand on the states with ids s and n
AddNextState(s, n) ==
    /\ op' = "add_next_state" /\ arg' = << s, n >> /\ ret' = << >>
    /\ err' = add_next_state(heap, s, n).err
    /\ heap' = add_next_state(heap, s, n).heap
    /\ UNCHANGED << cfgVars, first_state, last_state, envVars, iterator, ghostVars >>

Next ==
    \/ \E tag \in Tags : Start(tag)
    \/ \E tag \in Tags : Record(tag)
    \/ Stop
    \/ \E tag \in GetTags : GetSample(tag)
    \/ Iterate

\* the meter driven by a caller that reads it with get_sample and for-loops
Spec == Init /\ [][Next]_vars

NextStepwise ==
    \/ \E tag \in Tags : Start(tag)
    \/ \E tag \in Tags : Record(tag)
    \/ Stop
    \/ \E tag \in GetTags : GetSample(tag)
    \/ Iter
    \/ IterNext

\* the meter driven by a caller that keeps a SampleIterator and advances it
\* by hand, interleaved with the other calls
SpecStepwise == Init /\ [][NextStepwise]_vars

NextCompute ==
    \/ \E tag \in Tags : Start(tag)
    \/ \E tag \in Tags : Record(tag)
    \/ Stop
    \/ Iterate
    \/ \E s \in 1..Len(heap) : ComputeDuration(s)
    \/ \E s \in 1..Len(heap) : ComputeEnergy(s)

\* the meter driven by a caller that for-loops over it and also calls
\* compute_duration and compute_energy on the states by hand
SpecCompute == Init /\ [][NextCompute]_vars

NextDirect ==
    \/ \E tag \in Tags : Start(tag)
    \/ \E tag \in Tags : Record(tag)
    \/ Stop
    \/ \E s \in 1..Len(heap), n \in 1..Len(heap) : AddNextState(s, n)

\* a meter over one device with one domain
InitDirect ==
    /\ Init
    /\ devices = << << Domain("D") >> >>

\* the meter and a caller that also links states by hand with add_next_state
SpecDirect == InitDirect /\ [][NextDirect]_vars

(* ---------------------------------------------------------------------- *)
(* Vocabulary of the properties                                             *)
(* ---------------------------------------------------------------------- *)
RECURSIVE ChainFrom(_, _)
\* the ids of the states met from s by following next_state
ChainFrom(h, s) ==
    IF s = None THEN << >>
    ELSE << s >> \o ChainFrom(h, h[s].next_state)

\* the trace the meter holds
Chain == ChainFrom(heap, first_state)

Last(q) == q[Len(q)]

\* start() has never been called
NeverStarted == log = << >>

\* the calls that read the trace
ReadOps == {"get_sample", "iterate", "__iter__"}

\* get_sample and iteration pass their state preconditions
PassesChecks == IterCheck = "none"

\* log is start(), N record(), one stop()
PlainTrace ==
    /\ Len(log) >= 2
    /\ log[1] = "start"
    /\ Last(log) = "stop"
    /\ \A i \in 2..(Len(log) - 1) : log[i] = "record"

\* the caller never passed the reserved tag: only the states made by stop()
\* carry it
SentinelOnlyFromStop ==
    /\ Len(Chain) = Len(log)
    /\ \A i \in 1..Len(Chain) : (heap[Chain[i]].tag = StopTag) <=> (log[i] = "stop")

\* the positions of the trace whose state carries tag and has a successor
Matches(tag) ==
    { i \in 1..(Len(Chain) - 1) : heap[Chain[i]].tag = tag }

\* sample smp is the interval that starts at position i of the trace, with one
\* energy entry per configured domain of every device
IsIntervalSample(smp, i) ==
    LET cur == heap[Chain[i]]
        nxt == heap[Chain[i + 1]]
    IN /\ smp.timestamp = cur.timestamp
       /\ smp.tag = cur.tag
       /\ smp.duration = nxt.timestamp - cur.timestamp
       /\ \A d \in 1..Len(devices) : \A j \in 1..Len(devices[d]) :
             /\ Str(devices[d][j]) \in DOMAIN smp.energy
             /\ smp.energy[Str(devices[d][j])] = nxt.values[d][j] - cur.values[d][j]

(* ---------------------------------------------------------------------- *)
(* C1 .. C10                                                                *)
(* ---------------------------------------------------------------------- *)

\* C1: on a meter on which start() was never called, record, stop, get_sample
\* and iteration all fail with EnergyMeterNotStartedError, whatever the tag.
C1_NotStarted ==
    (NeverStarted /\ op \in {"record", "stop"} \cup ReadOps)
        => err = "EnergyMeterNotStartedError"

C1_Witness ==
    /\ NeverStarted
    /\ op = "get_sample" /\ arg = StopTag
    /\ err = "EnergyMeterNotStartedError"

\* C2: when the last successful trace-modifying call is start(tag) or
\* record(tag), get_sample and iteration fail with EnergyMeterNotStoppedError,
\* for every tag and every default tag.
C2_NotStopped ==
    (~NeverStarted /\ Last(log) \in {"start", "record"} /\ op \in ReadOps)
        => err = "EnergyMeterNotStoppedError"

\* C3 as stated: once a stop() has succeeded and the reads pass their checks,
\* they keep passing them after every call other than start().
C3_StoppedUntilStart ==
    [][ (/\ \E i \in 1..Len(log) : log[i] = "stop"
         /\ PassesChecks
         /\ op' # "start") => PassesChecks' ]_vars

\* C3 amended: once the reads pass their checks (in particular after a
\* successful stop()), they keep passing them after every call other than
\* start() and record().
C3_StoppedUntilStartOrRecord ==
    [][ (PassesChecks /\ op' \notin {"start", "record"}) => PassesChecks' ]_vars

C3_Witness ==
    /\ op = "stop" /\ err = "none"
    /\ Len(log) >= 3
    /\ log[Len(log) - 1] = "stop"
    /\ PassesChecks

\* C4: start(), then N record(), then one stop() makes a complete iteration
\* yield exactly N + 1 samples.
C4_SampleCount ==
    (PlainTrace /\ op = "iterate")
        => (err = "none" /\ Len(ret) = (Len(log) - 2) + 1)

C4_Witness ==
    /\ PlainTrace /\ Len(log) = 3
    /\ op = "iterate" /\ err = "none" /\ Len(ret) = 2

\* C5 (already for a caller that never passes the reserved tag): the i-th
\* sample of a complete iteration is the interval from the i-th
\* state of the trace to its successor: its timestamp and tag are the state's,
\* its duration the difference of the timestamps, and for each device d and
\* domain j the entry keyed by that domain is the difference of the readings.
C5_IntervalSamples ==
    (op = "iterate" /\ err = "none" /\ SentinelOnlyFromStop)
        => /\ Len(ret) = Len(Chain) - 1
           /\ \A i \in 1..Len(ret) : IsIntervalSample(ret[i], i)

\* C6: when several samples carry the tag, get_sample returns the one derived
\* from the earliest state with that tag.
C6_FirstMatch ==
    (op = "get_sample" /\ err = "none")
        => /\ Matches(arg) # {}
           /\ LET i == CHOOSE m \in Matches(arg) : \A n \in Matches(arg) : m <= n
              IN ret = << EnergySample(
                            heap[Chain[i]].timestamp,
                            arg,
                            heap[Chain[i + 1]].timestamp - heap[Chain[i]].timestamp,
                            ValuesDict(EnergyList(heap[Chain[i + 1]].values,
                                                  heap[Chain[i]].values),
                                       Flatten(devices))) >>

C6_Witness ==
    /\ op = "get_sample" /\ err = "none"
    /\ \E i \in Matches(arg), j \in Matches(arg) :
          /\ i < j
          /\ heap[Chain[i]].timestamp # heap[Chain[j]].timestamp
          /\ heap[Chain[i]].values # heap[Chain[j]].values

\* C7: on a Stopped meter get_sample(tag) returns a sample exactly when a state
\* with a successor carries the tag, and fails with SampleNotFoundError
\* otherwise; the tag of the final state is not matched through that state.
C7_FoundIffNonTerminal ==
    (op = "get_sample" /\ PassesChecks)
        => /\ (Matches(arg) # {}) => (err = "none" /\ Len(ret) = 1 /\ ret[1].tag = arg)
           /\ (Matches(arg) = {}) => (err = "SampleNotFoundError" /\ ret = << >>)

C7_Witness ==
    /\ op = "get_sample" /\ PassesChecks
    /\ arg = heap[last_state].tag
    /\ Len(Chain) >= 2
    /\ err = "SampleNotFoundError"

\* C8: start() on a meter that holds a trace discards it: first_state and
\* last_state are the one new state, which has no successor, and no state
\* created before that start() is reachable from first_state, so neither
\* get_sample nor an iteration yields a sample of the previous trace.
C8_StartDiscards ==
    /\ op = "start" =>
          /\ first_state = Len(heap)
          /\ last_state = first_state
          /\ is_last(heap, first_state)
          /\ Drain(heap, devices, first_state) = << >>
    /\ first_state # None =>
          /\ \A i \in 1..Len(Chain) : Chain[i] >= first_state
          /\ \A i \in 1..Len(ret) : \E k \in 1..(Len(Chain) - 1) :
                /\ ret[i].timestamp = heap[Chain[k]].timestamp
                /\ ret[i].tag = heap[Chain[k]].tag
                /\ ret[i].duration = heap[Chain[k + 1]].timestamp - heap[Chain[k]].timestamp

C8_Witness ==
    /\ op = "start"
    /\ first_state = 3
    /\ heap[1].next_state = 2
    /\ heap[2].tag = StopTag /\ heap[2].next_state = None

\* C9 as stated (already for a caller that never passes the reserved tag): two
\* successful complete iterations with no start() between them yield the same
\* samples, whatever else was called in between.
C9_SameUntilStart ==
    (op = "iterate" /\ err = "none" /\ snap.prevValid /\ SentinelOnlyFromStop)
        => ret = snap.prevSamples

\* C9 amended: two successful complete iterations with no successful start(),
\* record() or stop() between them yield the same samples.
C9_SameUntilModified ==
    (op = "iterate" /\ err = "none" /\ snap.prevValid /\ snap.prevMod = 0)
        => ret = snap.prevSamples

C9_Witness ==
    /\ op = "iterate" /\ err = "none"
    /\ snap.prevValid /\ snap.prevMod = 0
    /\ Len(ret) = 2

\* C10 (already for a caller that never passes the reserved tag): a second
\* stop() directly after stop() succeeds and appends one more
\* state tagged "__stop__"; an iteration then yields one more sample, placed
\* last, tagged "__stop__", whose energy entries are the differences between
\* the readings of the two stop states.
C10_DoubleStop ==
    (/\ Len(log) >= 3 /\ Last(log) = "stop" /\ log[Len(log) - 1] = "stop"
     /\ SentinelOnlyFromStop)
        => /\ op = "stop" => (err = "none" /\ heap[last_state].tag = StopTag)
           /\ Len(Chain) = Len(log)
           /\ (op = "iterate") =>
                 /\ err = "none"
                 /\ Len(ret) = Len(log) - 1
                 /\ Last(ret).tag = StopTag
                 /\ IsIntervalSample(Last(ret), Len(Chain) - 1)
                 /\ (snap.prevValid /\ snap.prevMod = 1) =>
                        ret = Append(snap.prevSamples, Last(ret))

(* ---------------------------------------------------------------------- *)
(* C11 .. C19                                                               *)
(* ---------------------------------------------------------------------- *)
\* the exceptions the meter raises itself
MeterErrors ==
    {"EnergyMeterNotStartedError", "EnergyMeterNotStoppedError", "SampleNotFoundError"}

RECURSIVE Walk(_, _, _)
\* the ids met from s by following next_state, at most fuel of them
Walk(h, s, fuel) ==
    IF s = None \/ fuel = 0 THEN << >>
    ELSE << s >> \o Walk(h, h[s].next_state, fuel - 1)

\* q is a beginning of r
IsPrefix(q, r) ==
    /\ Len(q) <= Len(r)
    /\ \A i \in 1..Len(q) : q[i] = r[i]

\* C11: a call of record, stop, get_sample or iteration that fails with
\* EnergyMeterNotStartedError, EnergyMeterNotStoppedError or
\* SampleNotFoundError leaves first_state, last_state and every state's
\* successor, tag, timestamp and values as they were.
C11_FailedCallChangesNothing ==
    [][ (/\ op' \in {"record", "stop"} \cup ReadOps
         /\ err' \in MeterErrors)
            => UNCHANGED << heap, first_state, last_state >> ]_vars

C11_Witness ==
    /\ op = "get_sample" /\ err = "SampleNotFoundError"
    /\ Len(Chain) = 3
    /\ first_state = 1 /\ last_state = 3

\* C12 (already for a caller that never passes the reserved tag): every device
\* returning one reading per configured domain, the energy mapping of every
\* sample has as many keys as there are configured domains over all devices.
C12_OneEntryPerDomain ==
    (op = "iterate" /\ err = "none" /\ SentinelOnlyFromStop)
        => \A i \in 1..Len(ret) :
              Cardinality(DOMAIN ret[i].energy) = Len(Flatten(devices))

\* C13: whenever iteration is allowed, a complete iteration yields (number of
\* states in the chain from first_state) - 1 samples, which is the number of
\* successful record() and stop() calls since the most recent start().
C13_CountIsChainMinusOne ==
    (op = "iterate" /\ PassesChecks)
        => /\ err = "none"
           /\ Len(ret) = Len(Chain) - 1
           /\ Len(ret) = Cardinality({ i \in 1..Len(log) : log[i] \in {"record", "stop"} })

C13_Witness ==
    /\ op = "iterate" /\ err = "none"
    /\ Len(log) = 3 /\ log[2] = "stop" /\ log[3] = "record"
    /\ Len(ret) = 2

\* C14: the chain followed from first_state is finite and acyclic, last_state
\* is reachable from first_state and is the only state of the chain without
\* successor, and first_state is empty exactly when last_state is.
C14_ChainShape ==
    /\ (first_state = None) <=> (last_state = None)
    /\ first_state # None =>
          LET c == Walk(heap, first_state, Len(heap) + 1)
          IN /\ Len(c) <= Len(heap)
             /\ \A i \in 1..Len(c), j \in 1..Len(c) : c[i] = c[j] => i = j
             /\ c[Len(c)] = last_state
             /\ \A i \in 1..Len(c) :
                   (heap[c[i]].next_state = None) <=> (c[i] = last_state)

C14_Witness ==
    /\ first_state = 2 /\ last_state = 3
    /\ heap[2].next_state = 3
    /\ heap[1].next_state = None

\* C15: add_next_state on a state without successor succeeds and sets it; on
\* a state that has a successor it fails with StateIsNotFinalError and leaves
\* the successor; no call ever changes a successor link that is not empty.
C15_SetOnce ==
    [][ /\ op' = "add_next_state" =>
              LET s == arg'[1]
                  n == arg'[2]
              IN IF heap[s].next_state = None
                 THEN err' = "none" /\ heap'[s].next_state = n
                 ELSE /\ err' = "StateIsNotFinalError"
                      /\ heap'[s].next_state = heap[s].next_state
        /\ \A s \in 1..Len(heap) :
              heap[s].next_state # None => heap'[s].next_state = heap[s].next_state
      ]_vars

C15_Witness ==
    /\ op = "add_next_state" /\ err = "StateIsNotFinalError"
    /\ heap[arg[1]].next_state # None
    /\ heap[arg[1]].next_state # arg[2]

\* C16: compute_duration and compute_energy fail with NoNextStateException on
\* the final state of the trace and succeed on every other state of the
\* trace; a complete iteration never raises NoNextStateException.
C16_NoNextOnlyOnFinal ==
    /\ (/\ op \in {"compute_duration", "compute_energy"}
        /\ \E i \in 1..Len(Chain) : Chain[i] = arg)
          => /\ (arg = last_state) => (err = "NoNextStateException" /\ ret = << >>)
             /\ (arg # last_state) => (err = "none" /\ Len(ret) = 1)
             /\ (arg # last_state /\ op = "compute_duration") =>
                   ret[1] = heap[heap[arg].next_state].timestamp - heap[arg].timestamp
    /\ op = "iterate" => err # "NoNextStateException"

C16_Witness ==
    /\ op = "compute_energy" /\ err = "NoNextStateException"
    /\ PassesChecks
    /\ Len(Chain) = 3 /\ arg = Chain[3]

\* C17: record() and stop() never fail with StateIsNotFinalError; on a started
\* meter they succeed and extend the chain by exactly one new state, which
\* becomes last_state.
C17_AppendAlwaysSucceeds ==
    [][ op' \in {"record", "stop"} =>
          IF first_state = None
          THEN err' = "EnergyMeterNotStartedError"
          ELSE /\ err' = "none"
               /\ last_state' = Len(heap) + 1
               /\ Len(heap') = Len(heap) + 1
               /\ ChainFrom(heap', first_state') = Append(Chain, last_state') ]_vars

C17_Witness ==
    /\ op = "record" /\ err = "none"
    /\ Len(Chain) = 3
    /\ log = << "start", "stop", "record" >>

\* C18: get_sample, __iter__ and any number of __next__ calls leave
\* first_state, last_state and every state's successor, tag, timestamp and
\* values unchanged, whether they succeed or fail.
C18_ReadsChangeNothing ==
    [][ op' \in {"get_sample", "__iter__", "__next__"}
            => UNCHANGED << heap, first_state, last_state >> ]_vars

C18_Witness ==
    /\ op = "__next__" /\ err = "none"
    /\ Len(Chain) = 3
    /\ iterator = Chain[3]

\* C19: a SampleIterator created on a Stopped meter, with start() called
\* afterwards at any point between its __next__ calls, yields exactly the
\* samples of the trace it was created over and none of the new trace.
C19_IteratorKeepsOldTrace ==
    (bound.active /\ bound.restarted)
        => /\ IsPrefix(bound.got, bound.expect)
           /\ (op = "__next__" /\ err = "StopIteration") => bound.got = bound.expect
           /\ (op = "__next__" /\ err = "none") => Last(bound.got) = ret[1]

C19_Witness ==
    /\ bound.active /\ bound.restarted
    /\ op = "__next__" /\ err = "none"
    /\ first_state = 3
    /\ iterator = 2

====
